---- MODULE Spec2Model ----
(***************************************************************************)
(* The todo store of assignment/backend/main.go: the in-memory collection, *)
(* the next-identifier counter and the JSON file behind them, with the     *)
(* store's operations load, save, list, create, update and delete.         *)
(***************************************************************************)
EXTENDS Integers, Sequences, FiniteSets, TLC

\* ------------------------------------------------------------------ bounds

\* Largest id a Create may assign in a run (guards the unbounded nextID++).
MaxID == 3

\* Number of persistence writes that may fail in a run.
MaxFaults == 1

\* Longest hand-written backing resource offered to load (items).
MaxLoadLen == 3

\* ------------------------------------------------------------------- data

\* Titles offered by callers: the empty one, a plain one, one json escapes.
Titles == {"", "a", "<"}

\* A *string or *bool of updateTodoRequest: <<>> is nil, <<v>> points to v.
TitlePtrs == {<<>>} \cup {<<t>> : t \in Titles}

CompletedPtrs == {<<>>, <<TRUE>>, <<FALSE>>}

Todo(id, title, completed) == [ID |-> id, Title |-> title, Completed |-> completed]

\* Todo{}: the zero value returned beside an error.
ZeroTodo == Todo(0, "", FALSE)

updateTodoRequest(title, completed) == [Title |-> title, Completed |-> completed]

Max(S) == CHOOSE m \in S : \A x \in S : x <= m

IdsOf(ts) == {ts[i].ID : i \in 1..Len(ts)}

\* ------------------------------------------------------------- the file

\* The backing resource: absent, or the lines of text it holds.
NoFile == [exists |-> FALSE, data |-> <<>>]

FileOf(lines) == [exists |-> TRUE, data |-> lines]

\* encoding/json writes a string between quotes and escapes <, > and &.
EscapeString(s) == IF s = "<" THEN "\\u003c" ELSE s

QuoteString(s) == "\"" \o EscapeString(s) \o "\""

IdLine(n) == "    \"id\": " \o ToString(n) \o ","

TitleLine(s) == "    \"title\": " \o QuoteString(s) \o ","

CompletedLine(b) == "    \"completed\": " \o (IF b THEN "true" ELSE "false")

\* One element of the array as MarshalIndent(_, "", "  ") lays it out.
MarshalTodo(t, isLast) ==
    << "  {", IdLine(t.ID), TitleLine(t.Title), CompletedLine(t.Completed),
       IF isLast THEN "  }" ELSE "  }," >>

RECURSIVE MarshalElems(_)
MarshalElems(ts) ==
    IF ts = <<>> THEN <<>>
    ELSE MarshalTodo(Head(ts), Len(ts) = 1) \o MarshalElems(Tail(ts))

\* json.MarshalIndent(s.todos, "", "  "): the whole collection, every time.
MarshalIndent(ts) ==
    IF ts = <<>> THEN <<"[]">>
    ELSE <<"[">> \o MarshalElems(ts) \o <<"]">>

\* The ids and titles a decoder of this model can read back from a line.
DecodableIDs == (-2)..(MaxID + 7)

ParseIdLine(l) ==
    IF \E n \in DecodableIDs : IdLine(n) = l
    THEN <<CHOOSE n \in DecodableIDs : IdLine(n) = l>> ELSE <<>>

ParseTitleLine(l) ==
    IF \E s \in Titles : TitleLine(s) = l
    THEN <<CHOOSE s \in Titles : TitleLine(s) = l>> ELSE <<>>

ParseCompletedLine(l) ==
    IF \E b \in BOOLEAN : CompletedLine(b) = l
    THEN <<CHOOSE b \in BOOLEAN : CompletedLine(b) = l>> ELSE <<>>

\* The elements of the array, from the line after "[" on; the closing brace
\* carries a comma exactly when another element follows.
RECURSIVE UnmarshalElems(_, _)
UnmarshalElems(lines, acc) ==
    IF Len(lines) < 6 THEN [ok |-> FALSE, todos |-> <<>>]
    ELSE LET id == ParseIdLine(lines[2])
             title == ParseTitleLine(lines[3])
             completed == ParseCompletedLine(lines[4])
             fields == lines[1] = "  {" /\ id # <<>> /\ title # <<>> /\ completed # <<>>
         IN  IF ~fields THEN [ok |-> FALSE, todos |-> <<>>]
             ELSE LET got == Append(acc, Todo(id[1], title[1], completed[1]))
                  IN  IF lines[5] = "  }" /\ Len(lines) = 6 /\ lines[6] = "]"
                      THEN [ok |-> TRUE, todos |-> got]
                      ELSE IF lines[5] = "  },"
                           THEN UnmarshalElems(SubSeq(lines, 6, Len(lines)), got)
                           ELSE [ok |-> FALSE, todos |-> <<>>]

\* json.Unmarshal(data, &s.todos) on non-empty data.
Unmarshal(lines) ==
    IF lines = <<"[]">> \/ lines = <<"null">> THEN [ok |-> TRUE, todos |-> <<>>]
    ELSE IF Head(lines) = "[" THEN UnmarshalElems(Tail(lines), <<>>)
    ELSE [ok |-> FALSE, todos |-> <<>>]

\* -------------------------------------------------------------- the store

\* What the file system does to a call: nothing, or one of its failures.
\* "read" is an I/O error after the first line came back; "write" with n is
\* a write that stopped (disk full) after n lines reached the truncated file:
\* before the first line, or before the last one; "close" is an error of
\* Close after the whole payload was handed over.
LoadEnvs == {"ok", "mkdir", "open", "read"}

NoFault == [kind |-> "none", n |-> 0]

WriteFaults(payload) ==
    {[kind |-> "open", n |-> 0], [kind |-> "close", n |-> Len(payload)]}
    \cup {[kind |-> "write", n |-> k] : k \in {0, Len(payload) - 1}}

\* os.ReadFile: the bytes read so far and the error.
ReadFile(f, env) ==
    IF ~f.exists THEN [data |-> <<>>, err |-> "ErrNotExist"]
    ELSE IF env = "open" THEN [data |-> <<>>, err |-> "EACCES"]
    ELSE IF env = "read" THEN [data |-> IF f.data = <<>> THEN <<>> ELSE <<Head(f.data)>>, err |-> "EIO"]
    ELSE [data |-> f.data, err |-> "nil"]

\* os.WriteFile: O_TRUNC on open, then the payload, then Close.
WriteFile(f, payload, fault) ==
    IF fault.kind = "none" THEN [file |-> FileOf(payload), err |-> "nil"]
    ELSE IF fault.kind = "open" THEN [file |-> f, err |-> "EACCES"]
    ELSE IF fault.kind = "close" THEN [file |-> FileOf(payload), err |-> "EIO"]
    ELSE [file |-> FileOf(SubSeq(payload, 1, fault.n)), err |-> "ENOSPC"]

\* A load that resumes from the number of items instead of their ids.
maxIDFromCount(ts) == Len(ts)

\* The loop of load: the largest id, starting from 0.
maxID(ts) == Max({0} \cup IdsOf(ts))

\* A load that drops the error of json.Unmarshal, which leaves s.todos as
\* it was when the text is invalid.
loadIgnoresDecodeError(f, env) ==
    LET empty == [err |-> "nil", todos |-> <<>>, nextID |-> 1]
        failed(e) == [err |-> e, todos |-> <<>>, nextID |-> 1]
        read == ReadFile(f, env)
    IN  IF env = "mkdir" THEN failed("mkdir")
        ELSE IF read.err = "ErrNotExist" \/ Len(read.data) = 0 THEN empty
        ELSE IF read.err # "nil" THEN failed(read.err)
        ELSE LET dec == Unmarshal(read.data)
             IN  [err |-> "nil", todos |-> dec.todos, nextID |-> maxID(dec.todos) + 1]

\* todoStore.load: what the store holds afterwards, and the error.
load(f, env) ==
    LET empty == [err |-> "nil", todos |-> <<>>, nextID |-> 1]
        failed(e) == [err |-> e, todos |-> <<>>, nextID |-> 1]
        read == ReadFile(f, env)
    IN  IF env = "mkdir" THEN failed("mkdir")
        ELSE IF read.err = "ErrNotExist" \/ Len(read.data) = 0 THEN empty
        ELSE IF read.err # "nil" THEN failed(read.err)
        ELSE LET dec == Unmarshal(read.data)
             IN  IF ~dec.ok THEN failed("unmarshal")
                 ELSE [err |-> "nil", todos |-> dec.todos, nextID |-> maxID(dec.todos) + 1]

\* A save that writes the item touched last instead of the collection.
saveDelta(ts, f, fault) ==
    WriteFile(f, MarshalIndent(IF ts = <<>> THEN <<>> ELSE <<ts[Len(ts)]>>), fault)

\* todoStore.save: the file afterwards, and the error.
save(ts, f, fault) == WriteFile(f, MarshalIndent(ts), fault)

\* slices.IndexFunc over s.todos: the first index (from 1) holding id, or -1.
findIndexByID(ts, id) ==
    IF \E i \in 1..Len(ts) : ts[i].ID = id
    THEN CHOOSE i \in 1..Len(ts) : ts[i].ID = id /\ \A j \in 1..(i - 1) : ts[j].ID # id
    ELSE -1

\* A create without its title check.
createRejectsNothing(title) == FALSE

\* create, line 104: the title check made before the lock.
createRejects(title) == title = ""

\* create that forgets s.nextID++.
createApplyNoIncrement(ts, next, title) ==
    LET todo == Todo(next, title, FALSE)
    IN  [todo |-> todo, nextID |-> next, todos |-> Append(ts, todo)]

\* create that numbers the new item by the collection's length.
createApplyLenID(ts, next, title) ==
    LET todo == Todo(Len(ts) + 1, title, FALSE)
    IN  [todo |-> todo, nextID |-> next + 1, todos |-> Append(ts, todo)]

\* create, lines 111-113: the new item, the counter, the append.
createApply(ts, next, title) ==
    LET todo == Todo(next, title, FALSE)
    IN  [todo |-> todo, nextID |-> next + 1, todos |-> Append(ts, todo)]

\* An update that writes completed before it checks the title.
updateApplyCompletedFirst(ts, id, req) ==
    LET idx == findIndexByID(ts, id)
    IN  IF idx = -1 THEN [err |-> "ErrNotFound", idx |-> idx, todos |-> ts]
        ELSE LET t1 == IF req.Completed # <<>>
                       THEN [ts[idx] EXCEPT !.Completed = req.Completed[1]] ELSE ts[idx]
             IN  IF req.Title # <<>> /\ req.Title[1] = ""
                 THEN [err |-> "title is required", idx |-> idx,
                       todos |-> [ts EXCEPT ![idx] = t1]]
                 ELSE LET t2 == IF req.Title # <<>>
                                THEN [t1 EXCEPT !.Title = req.Title[1]] ELSE t1
                      IN  [err |-> "nil", idx |-> idx, todos |-> [ts EXCEPT ![idx] = t2]]

\* An update whose request holds values instead of pointers: a field left
\* out arrives as its zero value and is written.
updateApplyZeroesOmitted(ts, id, req) ==
    LET idx == findIndexByID(ts, id)
    IN  IF idx = -1 THEN [err |-> "ErrNotFound", idx |-> idx, todos |-> ts]
        ELSE IF req.Title # <<>> /\ req.Title[1] = ""
        THEN [err |-> "title is required", idx |-> idx, todos |-> ts]
        ELSE LET t1 == IF req.Title # <<>>
                       THEN [ts[idx] EXCEPT !.Title = req.Title[1]] ELSE ts[idx]
                 t2 == [t1 EXCEPT !.Completed =
                            IF req.Completed # <<>> THEN req.Completed[1] ELSE FALSE]
             IN  [err |-> "nil", idx |-> idx, todos |-> [ts EXCEPT ![idx] = t2]]

\* An update that checks the title before it looks the id up.
updateApplyTitleFirst(ts, id, req) ==
    LET idx == findIndexByID(ts, id)
    IN  IF req.Title # <<>> /\ req.Title[1] = ""
        THEN [err |-> "title is required", idx |-> idx, todos |-> ts]
        ELSE IF idx = -1 THEN [err |-> "ErrNotFound", idx |-> idx, todos |-> ts]
        ELSE LET t1 == IF req.Title # <<>>
                       THEN [ts[idx] EXCEPT !.Title = req.Title[1]] ELSE ts[idx]
                 t2 == IF req.Completed # <<>>
                       THEN [t1 EXCEPT !.Completed = req.Completed[1]] ELSE t1
             IN  [err |-> "nil", idx |-> idx, todos |-> [ts EXCEPT ![idx] = t2]]

\* update, lines 126-139, between the lock and the save: the index found,
\* the title check made once the item is found, the provided fields written
\* in place.
updateApply(ts, id, req) ==
    LET idx == findIndexByID(ts, id)
    IN  IF idx = -1 THEN [err |-> "ErrNotFound", idx |-> idx, todos |-> ts]
        ELSE IF req.Title # <<>> /\ req.Title[1] = ""
        THEN [err |-> "title is required", idx |-> idx, todos |-> ts]
        ELSE LET t1 == IF req.Title # <<>>
                       THEN [ts[idx] EXCEPT !.Title = req.Title[1]] ELSE ts[idx]
                 t2 == IF req.Completed # <<>>
                       THEN [t1 EXCEPT !.Completed = req.Completed[1]] ELSE t1
             IN  [err |-> "nil", idx |-> idx, todos |-> [ts EXCEPT ![idx] = t2]]

\* A delete that cuts the collection's last item, whichever id was found.
deleteApplyDropsLast(ts, id) ==
    LET idx == findIndexByID(ts, id)
    IN  IF idx = -1 THEN [err |-> "ErrNotFound", todos |-> ts]
        ELSE [err |-> "nil", todos |-> SubSeq(ts, 1, Len(ts) - 1)]

\* delete, lines 152-157: append(s.todos[:idx], s.todos[idx+1:]...).
deleteApply(ts, id) ==
    LET idx == findIndexByID(ts, id)
    IN  IF idx = -1 THEN [err |-> "ErrNotFound", todos |-> ts]
        ELSE [err |-> "nil",
              todos |-> SubSeq(ts, 1, idx - 1) \o SubSeq(ts, idx + 1, Len(ts))]

\* ------------------------------------------------------------------ state

VARIABLES
    status,     \* "down": no process; "ready": newTodoStore returned a store;
                \* "failed": newTodoStore returned an error
    todos,      \* s.todos
    nextID,     \* s.nextID
    file,       \* the file at s.filePath
    faults,     \* persistence writes failed so far
    maxIssued,  \* the largest id a successful create returned in this session
    deleted,    \* the ids a successful delete removed in this session
    retired,    \* the id the session that ended last had handed out last and
                \* then deleted, kept while the next session starts and through
                \* a create that is its first call; 0 otherwise
    last,       \* the call that returned last: its arguments and results, and
                \* the status code its request handler answered with
    lock,       \* the sync.Mutex of the store: its holder, or "none"
    pc,         \* where each request handler stands in its call
    call,       \* the call each request handler is making
    acquired,   \* the number of create calls that have taken the lock
    created,    \* the ids create assigned, in order, each with the number its
                \* call drew when it took the lock and whether another create
                \* call was waiting for the lock then
    repo        \* the layered version run beside the store: the fields of its
                \* todoFileRepository, its file, and what its TodoService
                \* returned last

\* The request handlers the server runs side by side.
Handlers == {"h1", "h2"}

handlerVars == <<lock, pc, call, acquired, created>>

vars == <<status, todos, nextID, file, faults, maxIssued, deleted, retired, last, handlerVars, repo>>

NoReq == updateTodoRequest(<<>>, <<>>)

\* net/http's status codes, as main's handlers use them.
StatusOK == 200

StatusCreated == 201

StatusNoContent == 204

StatusBadRequest == 400

StatusNotFound == 404

StatusInternalServerError == 500

\* POST /todos, lines 181-187: what the handler answers to create's error.
postStatus(err) == IF err # "nil" THEN StatusBadRequest ELSE StatusCreated

\* PATCH /todos/:id, lines 204-213: what the handler answers to update's error.
patchStatus(err) ==
    IF err # "nil"
    THEN IF err = "ErrNotFound" THEN StatusNotFound ELSE StatusInternalServerError
    ELSE StatusOK

\* DELETE /todos/:id, lines 222-229: what the handler answers to delete's error.
deleteStatus(err) ==
    IF err # "nil"
    THEN IF err = "ErrNotFound" THEN StatusNotFound ELSE StatusInternalServerError
    ELSE StatusNoContent

\* The answer of the handler that made the call op to the error it got; 0
\* where no request is answered (the load in main, the end of the process).
Status(op, err) ==
    CASE op = "list" -> StatusOK
      [] op = "create" -> postStatus(err)
      [] op = "update" -> patchStatus(err)
      [] op = "delete" -> deleteStatus(err)
      [] OTHER -> 0

Returned(op, id, title, req, err, ret, out) ==
    [op |-> op, id |-> id, title |-> title, req |-> req, err |-> err,
     ret |-> ret, out |-> out, code |-> Status(op, err), ticket |-> 0, raced |-> FALSE]

NoCall == Returned("none", 0, "", NoReq, "nil", ZeroTodo, <<>>)

\* No layered version is running.
NoRepo ==
    [todos |-> <<>>, nextID |-> 1, file |-> NoFile, err |-> "nil", ret |-> ZeroTodo, out |-> <<>>]

\* No handler is inside the store.
HandlersIdle ==
    /\ lock = "none"
    /\ pc = [h \in Handlers |-> "idle"]
    /\ call = [h \in Handlers |-> NoCall]
    /\ acquired = 0
    /\ created = <<>>

Init ==
    /\ status = "down"
    /\ todos = <<>>
    /\ nextID = 1
    /\ file \in {NoFile, FileOf(<<>>)}
    /\ faults = 0
    /\ maxIssued = 0
    /\ deleted = {}
    /\ retired = 0
    /\ last = NoCall
    /\ repo = NoRepo
    /\ HandlersIdle

\* The faults a save may meet: none, or, where the run injects faults, one
\* while the run's budget lasts.
SaveFaults(ts, inject) ==
    {NoFault} \cup (IF inject /\ faults < MaxFaults THEN WriteFaults(MarshalIndent(ts)) ELSE {})

Count(fault) == IF fault.kind = "none" THEN faults ELSE faults + 1

\* newTodoStore, lines 39-45: a process starts and loads the file.
NewTodoStore ==
    /\ status = "down"
    /\ \E env \in LoadEnvs :
         LET r == load(file, env)
         IN  /\ status' = IF r.err = "nil" THEN "ready" ELSE "failed"
             /\ todos' = r.todos
             /\ nextID' = r.nextID
             /\ last' = Returned("load", 0, env, NoReq, r.err, ZeroTodo, <<>>)
    /\ maxIssued' = 0
    /\ deleted' = {}
    /\ UNCHANGED <<file, faults, retired, handlerVars, repo>>

\* The process ends (main's Fatal, or a kill); the file stays.
Exit ==
    /\ status \in {"ready", "failed"}
    /\ status' = "down"
    /\ todos' = <<>>
    /\ nextID' = 1
    /\ maxIssued' = 0
    /\ deleted' = {}
    /\ retired' = IF status = "ready" /\ maxIssued = nextID - 1 /\ maxIssued \in deleted
                  THEN maxIssued ELSE 0
    /\ last' = Returned("exit", 0, "", NoReq, "nil", ZeroTodo, <<>>)
    /\ UNCHANGED <<file, faults, handlerVars, repo>>

\* todoStore.list, lines 94-101.
List ==
    /\ status = "ready"
    /\ last' = Returned("list", 0, "", NoReq, "nil", ZeroTodo, todos)
    /\ retired' = 0
    /\ UNCHANGED <<status, todos, nextID, file, faults, maxIssued, deleted, handlerVars, repo>>

\* A create that takes its item and its id back when the write fails.
CreateRollsBack(titles, cap, inject) ==
    /\ status = "ready"
    /\ \E title \in titles :
         IF createRejects(title)
         THEN /\ last' = Returned("create", 0, title, NoReq, "title is required", ZeroTodo, <<>>)
              /\ UNCHANGED <<todos, nextID, file, faults, maxIssued>>
         ELSE /\ nextID <= cap
              /\ LET c == createApply(todos, nextID, title)
                 IN  \E fault \in SaveFaults(c.todos, inject) :
                       LET w == save(c.todos, file, fault)
                       IN  /\ todos' = IF w.err = "nil" THEN c.todos ELSE todos
                           /\ nextID' = IF w.err = "nil" THEN c.nextID ELSE nextID
                           /\ file' = w.file
                           /\ faults' = Count(fault)
                           /\ maxIssued' = IF w.err = "nil"
                                           THEN Max({maxIssued, c.todo.ID}) ELSE maxIssued
                           /\ last' = Returned("create", 0, title, NoReq, w.err,
                                               IF w.err = "nil" THEN c.todo ELSE ZeroTodo, <<>>)
    /\ retired' = IF last.op = "load" THEN retired ELSE 0
    /\ UNCHANGED <<status, deleted, handlerVars, repo>>

\* todoStore.create, lines 103-120, called with one of titles while the
\* counter is at most cap.
Create(titles, cap, inject) ==
    /\ status = "ready"
    /\ \E title \in titles :
         IF createRejects(title)
         THEN /\ last' = Returned("create", 0, title, NoReq, "title is required", ZeroTodo, <<>>)
              /\ UNCHANGED <<todos, nextID, file, faults, maxIssued>>
         ELSE /\ nextID <= cap
              /\ LET c == createApply(todos, nextID, title)
                 IN  \E fault \in SaveFaults(c.todos, inject) :
                       LET w == save(c.todos, file, fault)
                       IN  /\ todos' = c.todos
                           /\ nextID' = c.nextID
                           /\ file' = w.file
                           /\ faults' = Count(fault)
                           /\ maxIssued' = IF w.err = "nil"
                                           THEN Max({maxIssued, c.todo.ID}) ELSE maxIssued
                           /\ last' = Returned("create", 0, title, NoReq, w.err,
                                               IF w.err = "nil" THEN c.todo ELSE ZeroTodo, <<>>)
    /\ retired' = IF last.op = "load" THEN retired ELSE 0
    /\ UNCHANGED <<status, deleted, handlerVars, repo>>

\* The ids callers ask for: every id handed out so far, and one never used.
CallIDs == 1..(MaxID + 1)

\* The requests callers send: every combination of the two optional fields.
Requests == {updateTodoRequest(t, c) : t \in TitlePtrs, c \in CompletedPtrs}

\* todoStore.update, lines 122-146, called with one of reqs.
Update(reqs, inject) ==
    /\ status = "ready"
    /\ \E id \in CallIDs, req \in reqs :
         LET u == updateApply(todos, id, req)
         IN  IF u.err # "nil"
             THEN /\ last' = Returned("update", id, "", req, u.err, ZeroTodo, <<>>)
                  /\ todos' = u.todos
                  /\ UNCHANGED <<file, faults>>
             ELSE \E fault \in SaveFaults(u.todos, inject) :
                    LET w == save(u.todos, file, fault)
                    IN  /\ todos' = u.todos
                        /\ file' = w.file
                        /\ faults' = Count(fault)
                        /\ last' = Returned("update", id, "", req, w.err,
                                            IF w.err = "nil" THEN u.todos[u.idx] ELSE ZeroTodo,
                                            <<>>)
    /\ retired' = 0
    /\ UNCHANGED <<status, nextID, maxIssued, deleted, handlerVars, repo>>

\* todoStore.delete, lines 148-159.
Delete(inject) ==
    /\ status = "ready"
    /\ \E id \in CallIDs :
         LET d == deleteApply(todos, id)
         IN  IF d.err # "nil"
             THEN /\ last' = Returned("delete", id, "", NoReq, d.err, ZeroTodo, <<>>)
                  /\ todos' = d.todos
                  /\ UNCHANGED <<file, faults, deleted>>
             ELSE \E fault \in SaveFaults(d.todos, inject) :
                    LET w == save(d.todos, file, fault)
                    IN  /\ todos' = d.todos
                        /\ file' = w.file
                        /\ faults' = Count(fault)
                        /\ deleted' = IF w.err = "nil" THEN deleted \cup {id} ELSE deleted
                        /\ last' = Returned("delete", id, "", NoReq, w.err, ZeroTodo, <<>>)
    /\ retired' = 0
    /\ UNCHANGED <<status, nextID, maxIssued, handlerVars, repo>>

\* What a write leaves in the file when the process dies inside it: O_TRUNC
\* has emptied the file, and some lines of the payload, never all of them,
\* have reached it; of the two bytes of [] the first one may have.
CrashCuts(payload) ==
    {SubSeq(payload, 1, k) : k \in 0..(Len(payload) - 1)}
    \cup (IF payload = <<"[]">> THEN {<<"[">>} ELSE {})

\* The collections a create, update or delete called now hands to save.
PendingSaves(reqs, cap) ==
    (IF nextID <= cap THEN {createApply(todos, nextID, "a").todos} ELSE {})
    \cup {updateApply(todos, id, req).todos :
             id \in {i \in CallIDs : findIndexByID(todos, i) # -1}, req \in reqs}
    \cup {deleteApply(todos, id).todos : id \in {i \in CallIDs : findIndexByID(todos, i) # -1}}

\* The process dies inside os.WriteFile of a create, update or delete
\* (line 85): the file is cut short and the store in memory is gone.
Crash(reqs, cap) ==
    /\ status = "ready"
    /\ faults < MaxFaults
    /\ \E ts \in PendingSaves(reqs, cap) : \E cut \in CrashCuts(MarshalIndent(ts)) :
         /\ file' = FileOf(cut)
         /\ last' = Returned("crash", 0, "", NoReq, "killed", ZeroTodo, ts)
    /\ status' = "down"
    /\ todos' = <<>>
    /\ nextID' = 1
    /\ faults' = faults + 1
    /\ maxIssued' = 0
    /\ deleted' = {}
    /\ retired' = 0
    /\ UNCHANGED <<handlerVars, repo>>

\* One session of the store with every request a caller can send, on a disk
\* that takes every write.
Next ==
    \/ NewTodoStore
    \/ List
    \/ Create(Titles, MaxID, FALSE)
    \/ Update(Requests, FALSE)
    \/ Delete(FALSE)

Spec == Init /\ [][Next]_vars

\* The request sent where writes may fail: the item is ticked off.
FaultRequests == {updateTodoRequest(<<>>, <<TRUE>>)}

\* Session after session of the store on a disk whose writes may fail.
NextFaults ==
    \/ NewTodoStore
    \/ Exit
    \/ List
    \/ Create({"", "a"}, MaxID, TRUE)
    \/ Update(FaultRequests, TRUE)
    \/ Delete(TRUE)
    \/ Crash(FaultRequests, MaxID)

SpecFaults == Init /\ [][NextFaults]_vars

\* --------------------------------------------------- concurrent handlers

\* A lock that lets everyone in.
lockFreeAlways(l) == TRUE

\* s.Lock() returns only while no one holds the mutex.
lockFree(l) == l = "none"

\* The ids the handlers ask for: the first item, and the second.
HandlerIDs == {1, 2}

\* The calls the handlers make side by side: one for every path through the
\* store's four operations.
HandlerCalls ==
    {Returned("list", 0, "", NoReq, "nil", ZeroTodo, <<>>)}
    \cup {Returned("create", 0, t, NoReq, "nil", ZeroTodo, <<>>) : t \in {"", "a"}}
    \cup {Returned("update", id, "", req, "nil", ZeroTodo, <<>>) :
             id \in HandlerIDs,
             req \in {updateTodoRequest(<<"a">>, <<>>), updateTodoRequest(<<"">>, <<>>)}}
    \cup {Returned("delete", id, "", NoReq, "nil", ZeroTodo, <<>>) : id \in HandlerIDs}

\* The create calls under way that have not taken their id yet.
CreatesPending == {h \in Handlers : call[h].op = "create" /\ pc[h] \in {"enter", "locked"}}

\* The server is up: main built the store, alone, before e.Start.
InitHandlers ==
    /\ status = "ready"
    /\ \E f \in {NoFile, FileOf(MarshalIndent(<<Todo(1, "a", FALSE)>>))} :
         /\ file = f
         /\ todos = load(f, "ok").todos
         /\ nextID = load(f, "ok").nextID
    /\ faults = 0
    /\ maxIssued = 0
    /\ deleted = {}
    /\ retired = 0
    /\ last = NoCall
    /\ repo = NoRepo
    /\ HandlersIdle

\* A request arrives and its handler calls the store.
Begin(h) ==
    /\ pc[h] = "idle"
    /\ \E c \in HandlerCalls :
         /\ (c.op = "create" /\ ~createRejects(c.title)) =>
                nextID + Cardinality(CreatesPending) <= MaxID
         /\ call' = [call EXCEPT ![h] = c]
    /\ pc' = [pc EXCEPT ![h] = "enter"]
    /\ UNCHANGED <<status, todos, nextID, file, faults, maxIssued, deleted, retired, last,
                   repo,
                   lock, acquired, created>>

\* create, lines 104-106: the empty title returns before the lock.
RejectTitle(h) ==
    /\ pc[h] = "enter"
    /\ call[h].op = "create" /\ createRejects(call[h].title)
    /\ pc' = [pc EXCEPT ![h] = "idle"]
    /\ call' = [call EXCEPT ![h] = NoCall]
    /\ UNCHANGED <<status, todos, nextID, file, faults, maxIssued, deleted, retired, last,
                   repo,
                   lock, acquired, created>>

\* s.Lock(), lines 95, 108, 123, 149.
Acquire(h) ==
    /\ pc[h] = "enter"
    /\ ~(call[h].op = "create" /\ createRejects(call[h].title))
    /\ lockFree(lock)
    /\ lock' = h
    /\ pc' = [pc EXCEPT ![h] = "locked"]
    /\ IF call[h].op = "create"
       THEN /\ acquired' = acquired + 1
            /\ call' = [call EXCEPT ![h].ticket = acquired + 1,
                                    ![h].raced = CreatesPending \ {h} # {}]
       ELSE UNCHANGED <<acquired, call>>
    /\ UNCHANGED <<status, todos, nextID, file, faults, maxIssued, deleted, retired, last,
                   repo, created>>

\* The work on s.todos and s.nextID between the lock and the save.
Body(h) ==
    /\ pc[h] = "locked"
    /\ LET c == call[h]
       IN  CASE c.op = "list" ->
                  /\ call' = [call EXCEPT ![h].out = todos]
                  /\ pc' = [pc EXCEPT ![h] = "return"]
                  /\ UNCHANGED <<todos, nextID, created>>
             [] c.op = "create" ->
                  LET r == createApply(todos, nextID, c.title)
                  IN  /\ todos' = r.todos
                      /\ nextID' = r.nextID
                      /\ created' = Append(created, [ticket |-> c.ticket, id |-> r.todo.ID,
                                                       raced |-> c.raced])
                      /\ call' = [call EXCEPT ![h].ret = r.todo]
                      /\ pc' = [pc EXCEPT ![h] = "save"]
             [] c.op = "update" ->
                  LET r == updateApply(todos, c.id, c.req)
                  IN  /\ todos' = r.todos
                      /\ call' = [call EXCEPT ![h].err = r.err,
                                              ![h].code = Status(c.op, r.err),
                                              ![h].ret = IF r.err = "nil" THEN r.todos[r.idx]
                                                         ELSE ZeroTodo]
                      /\ pc' = [pc EXCEPT ![h] = IF r.err = "nil" THEN "save" ELSE "return"]
                      /\ UNCHANGED <<nextID, created>>
             [] c.op = "delete" ->
                  LET r == deleteApply(todos, c.id)
                  IN  /\ todos' = r.todos
                      /\ call' = [call EXCEPT ![h].err = r.err,
                                              ![h].code = Status(c.op, r.err)]
                      /\ pc' = [pc EXCEPT ![h] = IF r.err = "nil" THEN "save" ELSE "return"]
                      /\ UNCHANGED <<nextID, created>>
    /\ UNCHANGED <<status, file, faults, maxIssued, deleted, retired, last, repo, lock, acquired>>

\* s.save(), lines 115, 141, 158.
Save(h) ==
    /\ pc[h] = "save"
    /\ \E fault \in SaveFaults(todos, TRUE) :
         LET w == save(todos, file, fault)
         IN  /\ file' = w.file
             /\ faults' = Count(fault)
             /\ call' = [call EXCEPT ![h].err = w.err,
                                     ![h].code = Status(call[h].op, w.err),
                                     ![h].ret = IF w.err = "nil" THEN call[h].ret ELSE ZeroTodo]
    /\ pc' = [pc EXCEPT ![h] = "return"]
    /\ UNCHANGED <<status, todos, nextID, maxIssued, deleted, retired, last, repo,
                   lock, acquired, created>>

\* A return that unlocks only at the end of the successful path, as written
\* without defer; the error returns keep the mutex.
ReleaseOnSuccessOnly(h) ==
    /\ pc[h] = "return"
    /\ lock' = IF lock = h /\ call[h].err = "nil" THEN "none" ELSE lock
    /\ pc' = [pc EXCEPT ![h] = "idle"]
    /\ call' = [call EXCEPT ![h] = NoCall]
    /\ UNCHANGED <<status, todos, nextID, file, faults, maxIssued, deleted, retired, last,
                   repo,
                   acquired, created>>

\* The return, and with it the deferred s.Unlock().
Release(h) ==
    /\ pc[h] = "return"
    /\ lock' = IF lock = h THEN "none" ELSE lock
    /\ pc' = [pc EXCEPT ![h] = "idle"]
    /\ call' = [call EXCEPT ![h] = NoCall]
    /\ UNCHANGED <<status, todos, nextID, file, faults, maxIssued, deleted, retired, last,
                   repo,
                   acquired, created>>

NextHandlers ==
    \E h \in Handlers : Begin(h) \/ RejectTitle(h) \/ Acquire(h) \/ Body(h) \/ Save(h) \/ Release(h)

\* The handlers of the running server calling one store.
SpecHandlers == InitHandlers /\ [][NextHandlers]_vars

\* What the runtime guarantees the handlers: a goroutine that can take its
\* next step takes it, and a goroutine waiting for the mutex gets it when
\* it is unlocked again and again (sync.Mutex hands a starving waiter the
\* lock). No request has to arrive.
FairHandlers ==
    \A h \in Handlers :
        /\ WF_vars(RejectTitle(h))
        /\ SF_vars(Acquire(h))
        /\ WF_vars(Body(h))
        /\ WF_vars(Save(h))
        /\ WF_vars(Release(h))

\* The items of a store that has one id left to hand out in the run.
Seeded == [i \in 1..(MaxID - 1) |-> Todo(i, "a", FALSE)]

\* The server is up on a file an earlier run of it wrote.
InitHandlersSeeded ==
    /\ status = "ready"
    /\ file = FileOf(MarshalIndent(Seeded))
    /\ todos = load(file, "ok").todos
    /\ nextID = load(file, "ok").nextID
    /\ faults = 0
    /\ maxIssued = 0
    /\ deleted = {}
    /\ retired = 0
    /\ last = NoCall
    /\ repo = NoRepo
    /\ HandlersIdle

\* The handlers of the running server under a fair scheduler and mutex.
SpecHandlersFair == InitHandlersSeeded /\ [][NextHandlers]_vars /\ FairHandlers

\* The ids found in files written by hand: negative ones, zero, gaps.
LoadIDs == {-2, -1, 0, 1, 3, 7}

RECURSIVE SeqsUpTo(_, _)
SeqsUpTo(S, n) ==
    IF n = 0 THEN {<<>>}
    ELSE LET shorter == SeqsUpTo(S, n - 1)
         IN  shorter \cup {Append(q, x) : q \in {r \in shorter : Len(r) = n - 1}, x \in S}

\* Every file json.Unmarshal accepts that holds up to MaxLoadLen items with
\* these ids, in any order and with repetitions, and the literal null.
HandWrittenFiles ==
    {FileOf(<<"null">>)} \cup
    {FileOf(MarshalIndent(ts)) : ts \in SeqsUpTo({Todo(id, "a", FALSE) : id \in LoadIDs}, MaxLoadLen)}

InitLoad ==
    /\ status = "down"
    /\ todos = <<>>
    /\ nextID = 1
    /\ file \in HandWrittenFiles
    /\ faults = 0
    /\ maxIssued = 0
    /\ deleted = {}
    /\ retired = 0
    /\ last = NoCall
    /\ repo = NoRepo
    /\ HandlersIdle

\* The first create of a store just constructed.
CreateAfterLoad ==
    /\ last.op = "load"
    /\ Create({"a"}, Max(LoadIDs) + 1, FALSE)

\* A store constructed from a file written by hand, and its first create.
NextLoad == NewTodoStore \/ CreateAfterLoad

SpecLoad == InitLoad /\ [][NextLoad]_vars

\* ----------------------------------------------------------------- claims

C2_CreateIdsIncrease ==
    [][(last'.op = "create" /\ last'.err = "nil") => last'.ret.ID > maxIssued]_vars

\* C2 witness: a create returned id 3 in a session in which item 1 had been
\* deleted and a write had failed.
C2_Witness ==
    /\ last.op = "create" /\ last.err = "nil" /\ last.ret.ID = 3
    /\ 1 \in deleted /\ faults > 0

\* C3, as the claim states it: after a successful load the counter is one
\* greater than the largest id present, whatever the ids, or 1 for an empty
\* collection. Fails for a file whose ids are all negative.
C3_NextIDIsMaxPlusOneOfAnyIds ==
    (status = "ready" /\ last.op = "load") =>
        nextID = IF todos = <<>> THEN 1 ELSE Max(IdsOf(todos)) + 1

\* C3, amended: after a successful load the counter is one greater than the
\* largest id present when that id is at least 0, and 1 when the collection
\* is empty or holds only negative ids; the first create then gets that
\* counter as its id, 8 for ids {1, 3, 7}.
C3_NextIDIsMaxPlusOneFromZero ==
    /\ (status = "ready" /\ last.op = "load") =>
           nextID = (IF \E id \in IdsOf(todos) : id >= 0 THEN Max(IdsOf(todos)) ELSE 0) + 1
    /\ (last.op = "create" /\ last.err = "nil") =>
           LET loaded == SubSeq(todos, 1, Len(todos) - 1)
           IN  /\ last.ret.ID =
                    (IF \E id \in IdsOf(loaded) : id >= 0 THEN Max(IdsOf(loaded)) ELSE 0) + 1
               /\ IdsOf(loaded) = {1, 3, 7} => last.ret.ID = 8

\* C3 witness: the store loaded ids 1, 3 and 7 and its first create returned 8.
C3_Witness ==
    /\ last.op = "create" /\ last.err = "nil" /\ last.ret.ID = 8
    /\ IdsOf(SubSeq(todos, 1, Len(todos) - 1)) = {1, 3, 7}

\* C4: after every successful create, update or delete the file holds the
\* whole collection: a store constructed from it has the same items in the
\* same order as s.todos when the call returned.
C4_FileReloadsToCollection ==
    (status = "ready" /\ last.op \in {"create", "update", "delete"} /\ last.err = "nil") =>
        LET fresh == load(file, "ok")
        IN  fresh.err = "nil" /\ fresh.todos = todos

\* C4 witness: a successful update of a collection of several items, one of
\* them with a title json escapes.
C4_Witness ==
    /\ status = "ready" /\ last.op = "update" /\ last.err = "nil"
    /\ Len(todos) >= 2
    /\ \E i \in 1..Len(todos) : todos[i].Title = "<"

\* C7: create with an empty title fails with the validation error and leaves
\* s.todos, s.nextID and the file as they were.
C7_EmptyTitleCreateChangesNothing ==
    [][(last'.op = "create" /\ last'.title = "") =>
          /\ last'.err = "title is required"
          /\ last'.ret = ZeroTodo
          /\ UNCHANGED <<todos, nextID, file>>]_vars

\* C7 witness: create with an empty title was rejected by a store that
\* holds items.
C7_Witness ==
    /\ last.op = "create" /\ last.title = "" /\ last.err = "title is required"
    /\ todos # <<>>

\* C8: update of an existing id with a provided empty title fails with the
\* validation error and changes nothing: neither the title nor completed,
\* also when completed was provided, and nothing is written.
C8_EmptyTitleUpdateChangesNothing ==
    [][(last'.op = "update" /\ last'.req.Title = <<"">> /\ last'.id \in IdsOf(todos)) =>
          /\ last'.err = "title is required"
          /\ last'.ret = ZeroTodo
          /\ UNCHANGED <<todos, nextID, file>>]_vars

\* C8 witness: an update with an empty title and completed = true was
\* rejected, and the item it named is still not completed.
C8_Witness ==
    /\ last.op = "update" /\ last.err = "title is required"
    /\ last.req = updateTodoRequest(<<"">>, <<TRUE>>)
    /\ \E i \in 1..Len(todos) : todos[i].ID = last.id /\ ~todos[i].Completed

\* C9: a successful update writes only the provided fields of the item with
\* the given id: a field left out keeps its value, and the item's id and
\* position, every other item and s.nextID are unchanged.
C9_UpdateChangesOnlyProvidedFields ==
    [][(last'.op = "update" /\ last'.err = "nil") =>
          \E i \in 1..Len(todos) :
              /\ todos[i].ID = last'.id
              /\ Len(todos') = Len(todos)
              /\ \A j \in 1..Len(todos) : j # i => todos'[j] = todos[j]
              /\ todos'[i].ID = todos[i].ID
              /\ todos'[i].Title =
                     IF last'.req.Title = <<>> THEN todos[i].Title ELSE last'.req.Title[1]
              /\ todos'[i].Completed =
                     IF last'.req.Completed = <<>> THEN todos[i].Completed
                     ELSE last'.req.Completed[1]
              /\ last'.ret = todos'[i]
              /\ nextID' = nextID]_vars

\* C9 witness: an update with only a title succeeded on the first of
\* several items, which stayed completed.
C9_Witness ==
    /\ last.op = "update" /\ last.err = "nil"
    /\ last.req = updateTodoRequest(<<"<">>, <<>>)
    /\ Len(todos) >= 2 /\ todos[1].ID = last.id
    /\ todos[1].Completed /\ todos[1].Title = "<"

\* C10: once delete(id) has succeeded, every later update(id, ...) and
\* delete(id) of the session fails with ErrNotFound.
C10_DeletedIdStaysNotFound ==
    [][(last'.op \in {"update", "delete"} /\ last'.id \in deleted) =>
          last'.err = "ErrNotFound"]_vars

\* C10 witness: an update of a deleted id was answered ErrNotFound by a
\* store that still holds other items.
C10_Witness ==
    /\ last.op = "update" /\ last.id \in deleted /\ last.err = "ErrNotFound"
    /\ todos # <<>>

\* The places of a call at which its handler is inside the store.
Inside == {"locked", "save", "return"}

\* C5: at most one call is inside the store at any time. s.todos, s.nextID
\* and the file change, and list copies s.todos, only in a step of the
\* handler that holds the lock, and that handler keeps the lock from its
\* first access until its disk write is over.
C5_OneCallInsideTheStore ==
    [][/\ Cardinality({h \in Handlers : pc'[h] \in Inside}) <= 1
       /\ (todos' # todos \/ nextID' # nextID \/ file' # file) =>
              \E h \in Handlers : lock = h /\ lock' = h /\ pc[h] \in {"locked", "save"}
       /\ \A h \in Handlers :
              /\ call'[h].out # call[h].out => lock = h
              /\ pc[h] \in {"locked", "save"} => lock = h /\ lock' = h
              /\ (lock = h /\ lock' # h) => pc[h] = "return"]_vars

\* C5 witness: one handler is at its disk write while the other one waits
\* for the lock.
C5_Witness ==
    \E h, g \in Handlers :
        /\ h # g /\ lock = h /\ pc[h] = "save"
        /\ pc[g] = "enter" /\ call[g].op = "update"

\* C6: create calls get their ids in the order in which they took the lock:
\* the earlier one gets the smaller id, no two get the same id, and their
\* items stand in s.todos in that order.
C6_CreateIdsFollowLockOrder ==
    /\ \A k, l \in 1..Len(created) :
           k < l => created[k].ticket < created[l].ticket /\ created[k].id < created[l].id
    /\ \A i, j \in 1..Len(todos) :
           (i < j /\ \E k \in 1..Len(created) : created[k].id = todos[j].ID) =>
               todos[i].ID < todos[j].ID

\* C6 witness: two create calls raced for the lock and both got their ids.
C6_Witness ==
    \E k \in 1..Len(created) :
        /\ created[k].raced /\ k < Len(created)
        /\ \E i, j \in 1..Len(todos) :
               i < j /\ todos[i].ID = created[k].id /\ todos[j].ID = created[k + 1].id

\* C11: a successful delete takes out exactly the item with the given id:
\* the items before it stay where they were, the items after it move up by
\* one place, each with its field values, the id is gone from s.todos and
\* s.nextID is unchanged.
C11_DeleteRemovesExactlyThatItem ==
    [][(last'.op = "delete" /\ last'.err = "nil") =>
          \E i \in 1..Len(todos) :
              /\ todos[i].ID = last'.id
              /\ Len(todos') = Len(todos) - 1
              /\ \A j \in 1..(i - 1) : todos'[j] = todos[j]
              /\ \A j \in i..Len(todos') : todos'[j] = todos[j + 1]
              /\ last'.id \notin IdsOf(todos')
              /\ nextID' = nextID]_vars

\* C11 witness: item 2 was deleted from between items 1 and 3, which keep
\* their order, the last one with its completed mark and its title.
C11_Witness ==
    /\ last.op = "delete" /\ last.err = "nil" /\ last.id = 2
    /\ Len(todos) = 2 /\ todos[1].ID = 1
    /\ todos[2] = Todo(3, "<", TRUE)

\* C12: newTodoStore fails, and returns no store, whenever the directory
\* cannot be made or the file is there and cannot be read (permission
\* denied at open, an I/O error while reading). Fails: a read that comes
\* back with an error and no bytes is taken for an empty file.
C12_UnreadableResourceFailsConstruction ==
    (/\ last.op = "load"
     /\ \/ last.title = "mkdir"
        \/ last.title \in {"open", "read"} /\ file.exists) =>
        status = "failed"

\* C13, as the claim states it: after the process died inside a write, the
\* next newTodoStore that reads the file fails at json.Unmarshal; it never
\* starts with a collection that is neither the one before the call nor the
\* one being written. Fails when no byte of the payload reached the file.
C13_CutWriteFailsNextLoad ==
    [][last'.op = "crash" =>
          LET fresh == load(file', "ok")
          IN  /\ fresh.err = "unmarshal"
              /\ fresh.err = "nil" => fresh.todos \in {todos, last'.out}]_vars

\* C13, amended: after the process died inside a write, a newTodoStore that
\* reads the file fails at json.Unmarshal when some bytes of the payload
\* reached it, and starts empty with counter 1 when none did; whatever the
\* file system does to the read, newTodoStore fails or starts empty with
\* counter 1, and never starts with items.
C13_CutWriteFailsOrStartsEmpty ==
    [][last'.op = "crash" =>
          /\ LET fresh == load(file', "ok")
             IN  IF file'.data = <<>>
                 THEN fresh.err = "nil" /\ fresh.todos = <<>> /\ fresh.nextID = 1
                 ELSE fresh.err = "unmarshal"
          /\ \A env \in LoadEnvs :
                 LET fresh == load(file', env)
                 IN  fresh.err = "nil" => fresh.todos = <<>> /\ fresh.nextID = 1]_vars

\* C13 witness: the process died while an update of two items was being
\* written, and all of the payload but its last line is in the file.
C13_Witness ==
    /\ last.op = "crash" /\ status = "down"
    /\ Len(last.out) = 2 /\ last.out[1].Completed
    /\ file.data = SubSeq(MarshalIndent(last.out), 1, Len(MarshalIndent(last.out)) - 1)

\* The errors os.WriteFile hands back through save.
WriteErrs == {"EACCES", "ENOSPC", "EIO"}

\* What a create, update or delete whose write failed leaves in memory: the
\* call returns the error and no item, and its work on s.todos and s.nextID
\* stands; the list that follows returns s.todos as it is.
KeptInMemory ==
    /\ (last'.op \in {"create", "update", "delete"} /\ last'.err \in WriteErrs) =>
           last'.ret = ZeroTodo
    /\ (last'.op = "create" /\ last'.err \in WriteErrs) =>
           /\ todos' = Append(todos, Todo(nextID, last'.title, FALSE))
           /\ nextID' = nextID + 1
    /\ (last'.op = "update" /\ last'.err \in WriteErrs) =>
           /\ nextID' = nextID
           /\ \E i \in 1..Len(todos) :
                  /\ todos[i].ID = last'.id
                  /\ todos' = [todos EXCEPT
                        ![i].Title = IF last'.req.Title = <<>> THEN @ ELSE last'.req.Title[1],
                        ![i].Completed = IF last'.req.Completed = <<>> THEN @
                                         ELSE last'.req.Completed[1]]
    /\ (last'.op = "delete" /\ last'.err \in WriteErrs) =>
           /\ nextID' = nextID
           /\ last'.id \in IdsOf(todos) /\ last'.id \notin IdsOf(todos')
           /\ Len(todos') = Len(todos) - 1
    /\ last'.op = "list" => last'.out = todos /\ todos' = todos

\* C14, as the claim states it: a create, update or delete whose write
\* failed keeps its work in memory, and the file does not hold it: a store
\* constructed from the file does not start with the collection in memory.
\* Fails when Close reports the error after the whole payload was written,
\* and when a delete empties the collection and the write empties the file.
C14_FailedWriteKeptInMemoryNotInFile ==
    [][/\ KeptInMemory
       /\ (/\ last'.op \in {"create", "update", "delete"} /\ last'.err \in WriteErrs
           /\ todos' # todos) =>
              LET fresh == load(file', "ok")
              IN  ~(fresh.err = "nil" /\ fresh.todos = todos')]_vars

\* C14, amended: a create, update or delete whose write failed keeps its
\* work in memory; the file is as it was before the call, or holds the first
\* part of the new payload: a store constructed from it then fails at
\* json.Unmarshal, or starts empty, or starts with the collection in memory.
C14_FailedWriteKeptInMemory ==
    [][/\ KeptInMemory
       /\ (last'.op \in {"create", "update", "delete"} /\ last'.err \in WriteErrs) =>
              \/ file' = file
              \/ LET fresh == load(file', "ok")
                 IN  \/ fresh.err = "unmarshal"
                     \/ fresh.err = "nil" /\ fresh.todos = <<>>
                     \/ fresh.err = "nil" /\ fresh.todos = todos']_vars

\* C14 witness: a list returned an item whose create had reported a failed
\* write, with the counter past its id, while the file holds no item.
C14_Witness ==
    /\ last.op = "list" /\ faults > 0
    /\ last.out = <<Todo(1, "a", FALSE)>> /\ nextID = 2
    /\ load(file, "ok").err = "nil" /\ load(file, "ok").todos = <<>>

\* C15: whenever create or update rejects an empty title, the handler that
\* made the call, POST /todos or PATCH /todos/:id, answers 400. Fails: the
\* PATCH handler answers 500 to every error other than ErrNotFound.
C15_ValidationErrorAnswers400 ==
    (last.op \in {"create", "update"} /\ last.err = "title is required") =>
        last.code = StatusBadRequest

\* C16: whenever the write of create, update or delete fails, the handler
\* that made the call, POST /todos, PATCH /todos/:id or DELETE /todos/:id,
\* answers 500. Fails: the POST handler answers 400 to every error.
C16_PersistenceErrorAnswers500 ==
    (last.op \in {"create", "update", "delete"} /\ last.err \in WriteErrs) =>
        last.code = StatusInternalServerError

\* C17: every call that has entered the store returns, and the mutex it
\* took is unlocked again, on the successful path as on the ErrNotFound,
\* empty-title and failed-write paths: no handler waits for the lock forever.
C17_EveryCallReturns ==
    \A h \in Handlers :
        /\ (pc[h] = "enter") ~> (pc[h] = "idle")
        /\ (lock = h) ~> (lock # h)

\* C17 witness: one handler holds the lock on its way back from a failed
\* write while the other one waits for it.
C17_Witness ==
    \E h, g \in Handlers :
        /\ h # g /\ lock = h /\ pc[h] = "return" /\ call[h].err \in WriteErrs
        /\ pc[g] = "enter" /\ call[g].op = "delete"

\* C18: update and delete of an id no item of s.todos has fail with
\* ErrNotFound and leave s.todos, s.nextID and the file as they were; update
\* looks the id up before it checks the title, so a missing id with an
\* empty title is answered ErrNotFound.
C18_MissingIdIsNotFound ==
    [][(last'.op \in {"update", "delete"} /\ last'.id \notin IdsOf(todos)) =>
          /\ last'.err = "ErrNotFound"
          /\ last'.ret = ZeroTodo
          /\ UNCHANGED <<todos, nextID, file>>]_vars

\* C18 witness: an update with an empty title of an id that was deleted was
\* answered ErrNotFound by a store that holds other items.
C18_Witness ==
    /\ last.op = "update" /\ last.err = "ErrNotFound"
    /\ last.req.Title = <<"">>
    /\ last.id < nextID /\ last.id \notin IdsOf(todos)
    /\ todos # <<>>

\* C19, as the claim states it: s.nextID is not written to the file; after
\* a session in which create returned n, the last id it handed out, and
\* delete(n) succeeded, the first create of the store constructed next
\* returns n again, every write having succeeded and the file having been
\* read. Fails when item n - 1 is not in the file either.
C19_NextCreateReturnsRetiredId ==
    [][(/\ retired # 0 /\ last.op = "load" /\ last.title = "ok" /\ faults' = 0
        /\ last'.op = "create" /\ last'.err = "nil") =>
          last'.ret.ID = retired]_vars

\* C19, amended: after such a session the first create of the store
\* constructed next returns one more than the largest id load found in the
\* file, 1 when it found none; that is never more than n, and it is n
\* exactly when n = 1 or item n - 1 was loaded.
C19_NextCreateReturnsCounterOfLoad ==
    [][(retired # 0 /\ last.op = "load" /\ last'.op = "create" /\ last'.err = "nil") =>
          /\ last'.ret.ID = Max({0} \cup IdsOf(todos)) + 1
          /\ last'.ret.ID <= retired
          /\ last'.ret.ID = retired <=> (retired = 1 \/ (retired - 1) \in IdsOf(todos))]_vars

\* C19 witness: id 2 was handed out and deleted in the session before, and
\* the first create of this session returned 2 again.
C19_Witness ==
    /\ retired = 2 /\ last.op = "create" /\ last.err = "nil" /\ last.ret.ID = 2
    /\ Len(todos) = 2 /\ todos[1].ID = 1

\* A store constructed from the file now would start with s.todos.
InLine ==
    LET fresh == load(file, "ok")
    IN  fresh.err = "nil" /\ fresh.todos = todos

\* C20: in a run in which writes have failed, every create, update or
\* delete whose write succeeds, the first one after a failure included,
\* leaves the file in line with the whole of s.todos, the work of the calls
\* that had reported the failures included.
C20_SuccessfulWriteRealigns ==
    (last.op \in {"create", "update", "delete"} /\ last.err = "nil" /\ faults > 0) =>
        InLine

\* C20 witness: item 2 stands in s.todos though its create had reported a
\* failed write, and the delete of item 1 has written it to the file.
C20_Witness ==
    /\ last.op = "delete" /\ last.err = "nil" /\ last.id = 1
    /\ maxIssued = 1 /\ faults > 0
    /\ todos = <<Todo(2, "a", FALSE)>>
    /\ InLine

\* ---------------------------------------------------- the layered version

\* todoFileRepository.load: what the repository holds afterwards, and the
\* error.
repoLoad(f, env) ==
    LET empty == [err |-> "nil", todos |-> <<>>, nextID |-> 1]
        failed(e) == [err |-> e, todos |-> <<>>, nextID |-> 1]
        read == ReadFile(f, env)
    IN  IF env = "mkdir" THEN failed("mkdir")
        ELSE IF read.err = "ErrNotExist" \/ Len(read.data) = 0 THEN empty
        ELSE IF read.err # "nil" THEN failed(read.err)
        ELSE LET dec == Unmarshal(read.data)
             IN  IF ~dec.ok THEN failed("unmarshal")
                 ELSE [err |-> "nil", todos |-> dec.todos, nextID |-> maxID(dec.todos) + 1]

\* NewTodoFileRepository: the repository built on the file f.
NewTodoFileRepository(f, env) ==
    LET r == repoLoad(f, env)
    IN  [todos |-> r.todos, nextID |-> r.nextID, file |-> f, err |-> r.err,
         ret |-> ZeroTodo, out |-> <<>>]

\* todoFileRepository.save: the file afterwards, and the error.
repoSave(ts, f, fault) == WriteFile(f, MarshalIndent(ts), fault)

\* todoFileRepository.findIndexByID: the first index (from 1) holding id, or -1.
repoFindIndexByID(ts, id) ==
    IF \E i \in 1..Len(ts) : ts[i].ID = id
    THEN CHOOSE i \in 1..Len(ts) : ts[i].ID = id /\ \A j \in 1..(i - 1) : ts[j].ID # id
    ELSE -1

\* todoFileRepository.List: a copy of r.todos.
repoList(r) == [r EXCEPT !.err = "nil", !.ret = ZeroTodo, !.out = r.todos]

\* todoFileRepository.Create: no title check here; the item, the counter,
\* the append, the save.
repoCreate(r, title, fault) ==
    LET todo == Todo(r.nextID, title, FALSE)
        ts == Append(r.todos, todo)
        w == repoSave(ts, r.file, fault)
    IN  [todos |-> ts, nextID |-> r.nextID + 1, file |-> w.file, err |-> w.err,
         ret |-> IF w.err = "nil" THEN todo ELSE ZeroTodo, out |-> <<>>]

\* todoFileRepository.Update: the index found, the provided fields written
\* in place with no title check, the save.
repoUpdate(r, id, title, completed, fault) ==
    LET idx == repoFindIndexByID(r.todos, id)
    IN  IF idx = -1
        THEN [r EXCEPT !.err = "ErrNotFound", !.ret = ZeroTodo, !.out = <<>>]
        ELSE LET t1 == IF title # <<>>
                       THEN [r.todos[idx] EXCEPT !.Title = title[1]] ELSE r.todos[idx]
                 t2 == IF completed # <<>>
                       THEN [t1 EXCEPT !.Completed = completed[1]] ELSE t1
                 ts == [r.todos EXCEPT ![idx] = t2]
                 w == repoSave(ts, r.file, fault)
             IN  [todos |-> ts, nextID |-> r.nextID, file |-> w.file, err |-> w.err,
                  ret |-> IF w.err = "nil" THEN ts[idx] ELSE ZeroTodo, out |-> <<>>]

\* todoFileRepository.Delete: append(r.todos[:idx], r.todos[idx+1:]...), the
\* save.
repoDelete(r, id, fault) ==
    LET idx == repoFindIndexByID(r.todos, id)
    IN  IF idx = -1
        THEN [r EXCEPT !.err = "ErrNotFound", !.ret = ZeroTodo, !.out = <<>>]
        ELSE LET ts == SubSeq(r.todos, 1, idx - 1) \o SubSeq(r.todos, idx + 1, Len(r.todos))
                 w == repoSave(ts, r.file, fault)
             IN  [todos |-> ts, nextID |-> r.nextID, file |-> w.file, err |-> w.err,
                  ret |-> ZeroTodo, out |-> <<>>]

\* TodoService.ListTodos.
ListTodos(r) == repoList(r)

\* TodoService.CreateTodo: the title check, then the repository.
CreateTodo(r, title, fault) ==
    IF title = ""
    THEN [r EXCEPT !.err = "title is required", !.ret = ZeroTodo, !.out = <<>>]
    ELSE repoCreate(r, title, fault)

\* TodoService.UpdateTodo: the title check, made before the repository
\* looks the id up.
UpdateTodo(r, id, req, fault) ==
    IF req.Title # <<>> /\ req.Title[1] = ""
    THEN [r EXCEPT !.err = "title is required", !.ret = ZeroTodo, !.out = <<>>]
    ELSE repoUpdate(r, id, req.Title, req.Completed, fault)

\* TodoService.DeleteTodo.
DeleteTodo(r, id, fault) == repoDelete(r, id, fault)

\* The kind of an error, whichever package made it: echo's HTTPError 400
\* and the service's errors.New are validation errors, echo.ErrNotFound
\* and repository.ErrNotFound are not-found errors, the rest comes from
\* the file.
errKind(err) ==
    CASE err = "nil" -> "nil"
      [] err = "title is required" -> "validation"
      [] err = "ErrNotFound" -> "not found"
      [] OTHER -> "persistence"

\* The files both versions are started on: none, an empty one, one the
\* store wrote, and one written by hand that holds an id twice.
LayeredFiles ==
    {NoFile, FileOf(<<>>), FileOf(MarshalIndent(<<Todo(1, "a", FALSE)>>)),
     FileOf(MarshalIndent(<<Todo(2, "a", FALSE), Todo(2, "<", TRUE)>>))}

\* Neither version runs yet; each has its own copy of the same file.
InitLayered ==
    /\ status = "down"
    /\ todos = <<>>
    /\ nextID = 1
    /\ file \in LayeredFiles
    /\ faults = 0
    /\ maxIssued = 0
    /\ deleted = {}
    /\ retired = 0
    /\ last = NoCall
    /\ repo = [NoRepo EXCEPT !.file = file]
    /\ HandlersIdle

\* newTodoStore and NewTodoFileRepository, each on its copy of the file,
\* in the same environment.
LayeredNew ==
    /\ status = "down"
    /\ \E env \in LoadEnvs :
         LET r == load(file, env)
         IN  /\ status' = IF r.err = "nil" THEN "ready" ELSE "failed"
             /\ todos' = r.todos
             /\ nextID' = r.nextID
             /\ last' = Returned("load", 0, env, NoReq, r.err, ZeroTodo, <<>>)
             /\ repo' = NewTodoFileRepository(repo.file, env)
    /\ maxIssued' = 0
    /\ deleted' = {}
    /\ UNCHANGED <<file, faults, retired, handlerVars>>

\* todoStore.list and TodoService.ListTodos.
LayeredList ==
    /\ status = "ready"
    /\ last' = Returned("list", 0, "", NoReq, "nil", ZeroTodo, todos)
    /\ repo' = ListTodos(repo)
    /\ retired' = 0
    /\ UNCHANGED <<status, todos, nextID, file, faults, maxIssued, deleted, handlerVars>>

\* todoStore.create and TodoService.CreateTodo with the same title; a write
\* that fails, fails the same way on both sides.
LayeredCreate(titles, cap, inject) ==
    /\ status = "ready"
    /\ \E title \in titles :
         IF createRejects(title)
         THEN /\ last' = Returned("create", 0, title, NoReq, "title is required", ZeroTodo, <<>>)
              /\ repo' = CreateTodo(repo, title, NoFault)
              /\ UNCHANGED <<todos, nextID, file, faults, maxIssued>>
         ELSE /\ nextID <= cap
              /\ LET c == createApply(todos, nextID, title)
                 IN  \E fault \in SaveFaults(c.todos, inject) :
                       LET w == save(c.todos, file, fault)
                       IN  /\ todos' = c.todos
                           /\ nextID' = c.nextID
                           /\ file' = w.file
                           /\ faults' = Count(fault)
                           /\ maxIssued' = IF w.err = "nil"
                                           THEN Max({maxIssued, c.todo.ID}) ELSE maxIssued
                           /\ last' = Returned("create", 0, title, NoReq, w.err,
                                               IF w.err = "nil" THEN c.todo ELSE ZeroTodo, <<>>)
                           /\ repo' = CreateTodo(repo, title, fault)
    /\ retired' = 0
    /\ UNCHANGED <<status, deleted, handlerVars>>

\* todoStore.update and TodoService.UpdateTodo with the same id and request.
LayeredUpdate(reqs, inject) ==
    /\ status = "ready"
    /\ \E id \in CallIDs, req \in reqs :
         LET u == updateApply(todos, id, req)
         IN  IF u.err # "nil"
             THEN /\ last' = Returned("update", id, "", req, u.err, ZeroTodo, <<>>)
                  /\ todos' = u.todos
                  /\ repo' = UpdateTodo(repo, id, req, NoFault)
                  /\ UNCHANGED <<file, faults>>
             ELSE \E fault \in SaveFaults(u.todos, inject) :
                    LET w == save(u.todos, file, fault)
                    IN  /\ todos' = u.todos
                        /\ file' = w.file
                        /\ faults' = Count(fault)
                        /\ last' = Returned("update", id, "", req, w.err,
                                            IF w.err = "nil" THEN u.todos[u.idx] ELSE ZeroTodo,
                                            <<>>)
                        /\ repo' = UpdateTodo(repo, id, req, fault)
    /\ retired' = 0
    /\ UNCHANGED <<status, nextID, maxIssued, deleted, handlerVars>>

\* todoStore.delete and TodoService.DeleteTodo with the same id.
LayeredDelete(inject) ==
    /\ status = "ready"
    /\ \E id \in CallIDs :
         LET d == deleteApply(todos, id)
         IN  IF d.err # "nil"
             THEN /\ last' = Returned("delete", id, "", NoReq, d.err, ZeroTodo, <<>>)
                  /\ todos' = d.todos
                  /\ repo' = DeleteTodo(repo, id, NoFault)
                  /\ UNCHANGED <<file, faults, deleted>>
             ELSE \E fault \in SaveFaults(d.todos, inject) :
                    LET w == save(d.todos, file, fault)
                    IN  /\ todos' = d.todos
                        /\ file' = w.file
                        /\ faults' = Count(fault)
                        /\ deleted' = IF w.err = "nil" THEN deleted \cup {id} ELSE deleted
                        /\ last' = Returned("delete", id, "", NoReq, w.err, ZeroTodo, <<>>)
                        /\ repo' = DeleteTodo(repo, id, fault)
    /\ retired' = 0
    /\ UNCHANGED <<status, nextID, maxIssued, handlerVars>>

\* The requests sent to both versions: a title alone, empty or not, a tick
\* alone, and an empty title with a tick.
LayeredRequests ==
    {updateTodoRequest(<<"">>, <<>>), updateTodoRequest(<<"<">>, <<>>),
     updateTodoRequest(<<>>, <<TRUE>>), updateTodoRequest(<<"">>, <<TRUE>>)}

\* The two versions run side by side on the same calls, on disks whose
\* writes may fail.
NextLayered ==
    \/ LayeredNew
    \/ LayeredList
    \/ LayeredCreate({"", "a"}, MaxID, TRUE)
    \/ LayeredUpdate(LayeredRequests, TRUE)
    \/ LayeredDelete(TRUE)

SpecLayered == InitLayered /\ [][NextLayered]_vars

\* C21: run side by side from the same file on the same calls, the layered
\* version and the store return the same results and the same kind of error
\* at every step and hold the same collection and the same counter, an
\* update of a missing id with an empty title included.
C21_LayeredEquivalent ==
    last.op \in {"list", "create", "update", "delete"} =>
        /\ errKind(repo.err) = errKind(last.err)
        /\ repo.ret = last.ret
        /\ repo.out = last.out
        /\ repo.todos = todos
        /\ repo.nextID = nextID

====
